---- MODULE Spec2Model ----
(***************************************************************************)
(* State-machine model of the coaching mobile client: the authentication   *)
(* gate (AppNavigator / AuthenticatedApp), the CoachStudentContext, the    *)
(* StreamContext (video and chat session handling) and the three tab       *)
(* screens, running against the communications platform.                   *)
(*                                                                         *)
(* One device is modelled.  Every asynchronous call of the code (a call    *)
(* that is awaited) is a record in the bag `pending`: the record is added  *)
(* by the action that runs the synchronous part of the handler and holds   *)
(* the values the handler's closure captured; a completion action removes  *)
(* it and runs the rest of the handler.  React effects are actions of      *)
(* their own that take priority over every other action (EffectDue).       *)
(***************************************************************************)
EXTENDS Bags, FiniteSets, Integers, Sequences, TLC

(***************************************************************************)
(* Bounds                                                                  *)
(***************************************************************************)
\* In-flight asynchronous calls a user action may add to.
MaxPending == 1

\* Sign-ins on the device.
MaxSignIns == 1

\* Sign-ins on the device when the sessions are confined to the sign-in gate,
\* the partner selection and the home screen (SpecSessions).
MaxSessions == 2

\* Sign-ins on the device when a sign-in may overtake the calls in flight and
\* the sessions are confined to the home and chat screens (SpecRaces).
MaxRaces == 2

\* Local reminders pending on the device beyond which HomeScreen is not
\* pulled to refresh again (SpecReminders).
MaxReminders == 6
MaxResources == 2

(***************************************************************************)
(* Backing-store rows the client reads                                     *)
(***************************************************************************)
None == "none"      \* null / undefined
Missing == ""       \* an identifier column that holds no identifier
Unset == <<>>       \* an effect that has not run since its component mounted

\* user_profiles rows: id -> role
Role == [s1 |-> "student", s2 |-> "student", c1 |-> "coach", c2 |-> "coach",
         a1 |-> "admin"]

UserIds == DOMAIN Role

\* coach_student_assignments rows; c2 is a coach with no active assignment
\* and s2 a student with none
Assignments ==
  { [coach_id |-> "c1", student_id |-> "s1", is_active |-> TRUE],
    [coach_id |-> "c2", student_id |-> "s1", is_active |-> FALSE],
    [coach_id |-> "c2", student_id |-> "s2", is_active |-> FALSE] }

\* tasks rows of type coaching_session: t2 was created by the student it is
\* assigned to, t3 holds no creator
Tasks ==
  { [id |-> "t1", assigned_by |-> "c1", assigned_to |-> "s1"],
    [id |-> "t2", assigned_by |-> "s2", assigned_to |-> "s2"],
    [id |-> "t3", assigned_by |-> Missing, assigned_to |-> "s2"] }

StudentsOfAnyStatus(coach) ==
  { a.student_id : a \in { x \in Assignments : x.coach_id = coach } }

\* .eq('coach_id', id).eq('is_active', true) -> student profiles
StudentsOf(coach) ==
  { a.student_id : a \in { x \in Assignments : x.coach_id = coach /\ x.is_active } }

CoachOfAnyStatus(student) ==
  LET rows == { x \in Assignments : x.student_id = student }
  IN IF Cardinality(rows) = 1 THEN (CHOOSE x \in rows : TRUE).coach_id ELSE None

\* .eq('student_id', id).eq('is_active', true).single() -> coach or null
CoachOf(student) ==
  LET rows == { x \in Assignments : x.student_id = student /\ x.is_active }
  IN IF Cardinality(rows) = 1 THEN (CHOOSE x \in rows : TRUE).coach_id ELSE None

\* tasks query of fetchUpcomingSessions
SessionsFor(role, uid, selected) ==
  IF role = "student" THEN { t \in Tasks : t.assigned_to = uid }
  ELSE IF role = "coach" /\ selected # None
       THEN { t \in Tasks : t.assigned_to = selected }
       ELSE Tasks

RoleOf(profile) == IF profile = None THEN None ELSE Role[profile]

\* subjects rows in the order of .order('name'); phys is not active
SubjectRows ==
  <<[id |-> "math", is_active |-> TRUE], [id |-> "phys", is_active |-> FALSE]>>

\* resources rows at the start: one resource of subject math.  The ids grow
\* with created_at.
ResourceRows == { [id |-> 1, subject_id |-> "math"] }

\* the users a browser session can belong to; x1 has no user_profiles row
WebUsers == UserIds \cup {"x1"}

\* Record<string, Resource[]> with no key
NoGroups == [k \in {} |-> <<>>]

\* reminder offsets before the session start, in ms, in the order of the
\* code: 24 hours, 1 hour, 15 minutes
Offsets == <<24 * 60 * 60 * 1000, 60 * 60 * 1000, 15 * 60 * 1000>>

\* instants the app can be opened at: the session start and each reminder
\* instant, and the millisecond before each
StartDiffs ==
  {0, 1} \cup { Offsets[i] : i \in 1..3 } \cup { Offsets[i] + 1 : i \in 1..3 }

(***************************************************************************)
(* Identity derivation (lib/stream)                                        *)
(***************************************************************************)
\* Code points of the characters of the identifiers in use
CodePoints ==
  [s1 |-> <<115, 49>>, s2 |-> <<115, 50>>, c1 |-> <<99, 49>>, c2 |-> <<99, 50>>,
   a1 |-> <<97, 49>>] @@ (Missing :> <<>>)

RECURSIVE LexLeq(_, _)
LexLeq(x, y) ==
  IF x = <<>> THEN TRUE
  ELSE IF y = <<>> THEN FALSE
  ELSE IF Head(x) < Head(y) THEN TRUE
  ELSE IF Head(x) > Head(y) THEN FALSE
  ELSE LexLeq(Tail(x), Tail(y))

\* the failure a derivation signals instead of returning an identifier
InvalidIdentifier == "InvalidIdentifier"

ValidIdentifierAny(a) == TRUE

ValidIdentifier(a) == CodePoints[a] # <<>>

createVideoCallIdUnsorted(a, b) == a \o ":" \o b

createVideoCallIdNoSelf(a, b) ==
  IF a = b \/ ~ValidIdentifier(a) \/ ~ValidIdentifier(b) THEN InvalidIdentifier
  ELSE IF LexLeq(CodePoints[a], CodePoints[b]) THEN a \o ":" \o b
  ELSE b \o ":" \o a

\* sorted join of the two identifiers; an empty identifier is rejected
createVideoCallId(a, b) ==
  IF ~ValidIdentifier(a) \/ ~ValidIdentifier(b) THEN InvalidIdentifier
  ELSE IF LexLeq(CodePoints[a], CodePoints[b]) THEN a \o ":" \o b
  ELSE b \o ":" \o a

createChatChannelId(a, b) == createVideoCallId(a, b)

(***************************************************************************)
(* State                                                                   *)
(***************************************************************************)
VARIABLES
  demoMode,          \* isDemoMode(): platform credentials absent
  authLoading, user, userProfile,                       \* AuthContext
  signIns,           \* number of sign-ins so far
  videoClient, videoCall, videoLoading, videoError,     \* StreamContext
  chatClient, chatChannel, chatLoading, chatError, isStreamReady,
  selectedStudent, availableStudents, csLoading, csError, \* CoachStudentContext
  studentSelected, mountedTabs,                         \* AuthenticatedApp / MainTabs
  homeLoading, homeCoach, upcomingSessions,             \* HomeScreen
  chatScrLoading, chatPartner,                          \* ChatScreen
  vtLoading, callPartner, showVideoCall,                \* VideoCallTabScreen
  seen,              \* per effect: the dependencies it last ran with
  due,               \* the effects the last render has scheduled
  pending,           \* bag of in-flight asynchronous calls
  calls,             \* platform: bag of session records [id, members, created_by]
  opsInvoked,        \* history: StreamContext operations invoked in this sign-in
  leaveInvoked,      \* history: leave() was invoked on the current videoCall
  picked,            \* history: a sign-out has discarded a selected student
  failed,            \* history: the calls that have failed since the last
                     \* user action or authentication change
  alert,             \* the Alert.alert dialog raised since the last user action
  untilStart,        \* <<start of the scheduled sessions minus now, in ms>>,
                     \* or <<>> when the session rows hold no start time
  reminders,         \* device: bag of pending local reminders [sessionId, offset]
  webUser,           \* web: the user of the browser session, supabase.auth.getUser()
  resourcesTable,    \* web: the rows of table resources
  subjects, resources, loading,                         \* ResourceManagement
  resourceDialogOpen,
  editingResource,   \* <<the resource being edited>>, or <<>> for null
  resourceFormData,
  formError, submitting, expandedSubjects,
  pagePc,            \* the await an asynchronous handler of the page is at
  checkedUser,       \* local `user` of checkAuthAndLoadData
  resourceData,      \* local `resourceData` of handleResourceSubmit
  loadFor,           \* the handler that awaits loadSubjectsAndResources
  redirected,        \* history: the path redirect() was called with
  loadInvoked,       \* history: loadSubjectsAndResources has been called
  reloaded           \* history: the reload after the last save has returned

authVars == <<authLoading, user, userProfile>>
videoVars == <<videoClient, videoCall, videoLoading, videoError>>
chatVars == <<chatClient, chatChannel, chatLoading, chatError>>
csVars == <<selectedStudent, availableStudents, csLoading, csError>>
navVars == <<studentSelected, mountedTabs>>
homeVars == <<homeLoading, homeCoach, upcomingSessions>>
chatScrVars == <<chatScrLoading, chatPartner>>
vtVars == <<vtLoading, callPartner, showVideoCall>>
histVars == <<opsInvoked, leaveInvoked>>
noteVars == <<picked, failed, alert>>
remVars == <<untilStart, reminders>>
pageVars == <<subjects, resources, loading>>
dialogVars == <<resourceDialogOpen, editingResource, resourceFormData, formError>>
adminVars == <<webUser, resourcesTable, pageVars, dialogVars, submitting,
               expandedSubjects, pagePc, checkedUser, resourceData, loadFor,
               redirected, loadInvoked, reloaded>>

mobileVars == <<demoMode, signIns, authVars, videoVars, chatVars, isStreamReady,
                csVars, navVars, homeVars, chatScrVars, vtVars, seen, due,
                pending, calls, histVars, noteVars, remVars>>

vars == <<mobileVars, adminVars>>

EffectNames == {"stream", "coachProvider", "selection", "home", "chat",
                "videoTab", "videoTabCall", "navigator", "autoJoin"}

Req(op, u, p, c, k) == [op |-> op, u |-> u, p |-> p, c |-> c, k |-> k]

Constructed ==
  /\ demoMode \in BOOLEAN
  /\ authLoading = TRUE /\ user = None /\ userProfile = None
  /\ signIns = 0
  /\ videoClient = None /\ videoCall = None
  /\ videoLoading = FALSE /\ videoError = None
  /\ chatClient = None /\ chatChannel = None
  /\ chatLoading = FALSE /\ chatError = None
  /\ isStreamReady = FALSE
  /\ selectedStudent = None /\ availableStudents = {}
  /\ csLoading = FALSE /\ csError = None
  /\ studentSelected = FALSE /\ mountedTabs = {}
  /\ homeLoading = TRUE /\ homeCoach = None /\ upcomingSessions = {}
  /\ chatScrLoading = TRUE /\ chatPartner = None
  /\ vtLoading = TRUE /\ callPartner = None /\ showVideoCall = FALSE
  /\ seen = [e \in EffectNames |-> Unset]
  /\ due = {"stream"}
  /\ pending = EmptyBag
  /\ calls = EmptyBag
  /\ opsInvoked = {}
  /\ leaveInvoked = FALSE
  /\ picked = FALSE /\ failed = {} /\ alert = None
  /\ reminders = EmptyBag
  /\ resourcesTable = ResourceRows
  /\ subjects = <<>> /\ resources = NoGroups /\ loading = TRUE
  /\ resourceDialogOpen = FALSE /\ editingResource = <<>>
  /\ resourceFormData = [subject_id |-> Missing] /\ formError = None
  /\ submitting = FALSE /\ expandedSubjects = {}
  /\ pagePc = "mounted" /\ checkedUser = None
  /\ resourceData = [id |-> 0, subject_id |-> None] /\ loadFor = None
  /\ redirected = None /\ loadInvoked = FALSE /\ reloaded = FALSE

\* the app is opened 11 minutes before the scheduled sessions start
Init == Constructed /\ untilStart = <<11 * 60 * 1000>> /\ webUser = None

\* the app is opened at an instant next to one of the reminder instants of
\* the scheduled sessions, or the session rows hold no start time
InitReminders ==
  /\ Constructed /\ webUser = None
  /\ untilStart \in { <<d>> : d \in StartDiffs } \cup {<<>>}

\* the admin resources page is opened in a browser whose session is absent,
\* or is the session of a user with any role, or of a user without profile
InitResources ==
  /\ Constructed /\ ~demoMode /\ untilStart = <<11 * 60 * 1000>>
  /\ webUser \in WebUsers \cup {None}

(***************************************************************************)
(* Rendering: which components are mounted                                 *)
(***************************************************************************)
isAuthenticated == user # None

renderMainContentNoGate ==
  "MainTabs"

renderMainContentStudentOnly ==
  IF RoleOf(userProfile) = "student" THEN "MainTabs"
  ELSE IF ~studentSelected THEN "Selection" ELSE "MainTabs"

\* AuthenticatedApp.renderMainContent
renderMainContent ==
  IF RoleOf(userProfile) = "student" THEN "MainTabs"
  ELSE IF RoleOf(userProfile) = "coach"
       THEN IF ~studentSelected THEN "Selection" ELSE "MainTabs"
       ELSE "MainTabs"

\* AppNavigator: the surface shown
AppNavigator ==
  IF authLoading THEN "Loading"
  ELSE IF ~isAuthenticated THEN "Login"
  ELSE renderMainContent

\* VideoCallTabScreen renders VideoCallScreen
VideoCallScreenMounted ==
  /\ AppNavigator = "MainTabs" /\ "VideoCall" \in mountedTabs
  /\ showVideoCall /\ videoCall # None

\* every render of StreamProvider creates a new startVideoCall
ProviderRender ==
  <<user, userProfile, videoClient, videoCall, videoLoading, videoError,
    chatClient, chatChannel, chatLoading, chatError, isStreamReady>>

EffMounted(e) ==
  CASE e = "stream" -> TRUE
    [] e \in {"coachProvider", "navigator"} -> ~authLoading /\ isAuthenticated
    [] e = "selection" -> AppNavigator = "Selection"
    [] e = "home" -> AppNavigator = "MainTabs" /\ "Home" \in mountedTabs
    [] e = "chat" -> AppNavigator = "MainTabs" /\ "Chat" \in mountedTabs
    [] e \in {"videoTab", "videoTabCall"} ->
         AppNavigator = "MainTabs" /\ "VideoCall" \in mountedTabs
    [] e = "autoJoin" -> VideoCallScreenMounted

\* dependency arrays of the effects
Deps(e) ==
  CASE e = "stream" -> <<isAuthenticated, user, userProfile>>
    [] e \in {"coachProvider", "selection"} -> <<userProfile>>
    [] e \in {"home", "chat", "videoTab"} -> <<userProfile, selectedStudent>>
    [] e \in {"videoTabCall", "navigator"} -> <<videoCall>>
    [] e = "autoJoin" -> <<videoCall, ProviderRender>>

Due(e) == EffMounted(e) /\ seen[e] # Deps(e)

\* condition of the second useEffect of ChatScreen
ChatInitDue ==
  /\ EffMounted("chat")
  /\ chatPartner # None /\ chatClient # None /\ chatChannel = None
  /\ ~chatLoading /\ chatError = None /\ ~demoMode

\* the effects of one commit run children first and, within a component, in
\* the order of their declaration
EffectOrder ==
  <<"home", "chat", "chatInit", "autoJoin", "videoTab", "videoTabCall",
    "selection", "navigator", "coachProvider", "stream">>

IsDue(e) == IF e = "chatInit" THEN ChatInitDue ELSE Due(e)

\* effects run after the render that follows a state change, before any
\* other event is handled
EffectDue == due # {}

\* effect e is the next to run
Turn(e) ==
  /\ e \in due
  /\ \E i \in 1..Len(EffectOrder) :
       /\ EffectOrder[i] = e
       /\ \A j \in 1..(i - 1) : EffectOrder[j] \notin due

\* the render after a step: the dependencies remembered for the effects (an
\* unmounted component forgets them) and the effects the render schedules
Remember(s) ==
  /\ seen' = [e \in EffectNames |-> IF EffMounted(e)' THEN s[e] ELSE Unset]
  /\ due' = { e \in EffectNames \cup {"chatInit"} : IsDue(e)' }

Ran(e) == [seen EXCEPT ![e] = Deps(e)]

\* state of the tab screens at mount
FreshTabs(mounted) ==
  /\ mountedTabs' = mounted
  /\ homeLoading' = TRUE /\ homeCoach' = None /\ upcomingSessions' = {}
  /\ chatScrLoading' = TRUE /\ chatPartner' = None
  /\ vtLoading' = TRUE /\ callPartner' = None /\ showVideoCall' = FALSE

\* MainTabs is mounted or unmounted as the surface changes
Rerender ==
  IF AppNavigator' = "MainTabs"
  THEN IF AppNavigator = "MainTabs"
       THEN UNCHANGED <<mountedTabs, homeVars, chatScrVars, vtVars>>
       ELSE FreshTabs({"Home"})
  ELSE FreshTabs({})

\* in-flight calls whose continuation only sets the state of a component
\* that is now unmounted have no further effect
Detach(r) ==
  IF r.op \in {"leave"} THEN [r EXCEPT !.k = "gone"] ELSE r

UiOnly(r) == r.op \in {"loadStudents", "fetchCoach", "loadData"}

DropUi(bag) ==
  LET kept == { r \in BagToSet(bag) : ~UiOnly(r) }
      sub == [r \in kept |-> bag[r]]
  IN BagOfAll(Detach, sub)

Add(bag, r) == bag (+) SetToBag({r})

Remove(bag, r) == bag (-) SetToBag({r})

InFlight(op) == { r \in BagToSet(pending) : r.op = op }

Room == BagCardinality(pending) < MaxPending

\* a platform call, whoever awaits it
Attempt(r) == [r EXCEPT !.k = None]

\* a user action or an authentication change: the dialog on screen has been
\* dismissed and the failures before it are no longer the latest event
Acted == failed' = {} /\ alert' = None /\ UNCHANGED picked

(***************************************************************************)
(* AuthContext (sign-in, profile load, sign-out)                           *)
(***************************************************************************)
\* the stored session has been looked up
AuthLoaded ==
  /\ authLoading /\ ~EffectDue
  /\ authLoading' = FALSE
  /\ UNCHANGED <<demoMode, signIns, user, userProfile, videoVars, chatVars,
                 isStreamReady, csVars, navVars, homeVars, chatScrVars,
                 vtVars, pending, calls, histVars>>
  /\ Acted
  /\ UNCHANGED <<remVars, adminVars>>
  /\ Remember(seen)

CoachStudentProviderKept == UNCHANGED csVars

\* AppNavigator renders CoachStudentProvider and AuthenticatedApp only while
\* isAuthenticated: when it changes they are mounted, or unmounted, and their
\* state is the initial state of their useState hooks
CoachStudentProvider ==
  /\ selectedStudent' = None /\ availableStudents' = {}
  /\ csLoading' = FALSE /\ csError' = None

AuthenticatedApp == studentSelected' = FALSE

\* sign-in of user u; the profile row arrives with it (p = u) or later
signIn(u, p) ==
  /\ AppNavigator = "Login" /\ ~EffectDue
  /\ signIns' = signIns + 1
  /\ user' = u /\ userProfile' = p /\ UNCHANGED authLoading
  /\ AuthenticatedApp /\ CoachStudentProvider
  /\ Rerender
  /\ opsInvoked' = {}
  /\ UNCHANGED <<demoMode, videoVars, chatVars, isStreamReady,
                 pending, calls, leaveInvoked>>
  /\ Acted
  /\ UNCHANGED <<remVars, adminVars>>
  /\ Remember(seen)

\* The form is submitted on a device whose earlier calls have returned:
\* entering the credentials takes longer than any call in flight.
SignIn(u, p) == signIns < MaxSignIns /\ pending = EmptyBag /\ signIn(u, p)

SessionSignIn(u, p) ==
  signIns < MaxSessions /\ pending = EmptyBag /\ signIn(u, p)

\* The form is submitted while calls of the session before are in flight.
RacingSignIn(u, p) == signIns < MaxRaces /\ signIn(u, p)

ProfileLoaded ==
  /\ isAuthenticated /\ userProfile = None /\ ~EffectDue
  /\ userProfile' = user
  /\ UNCHANGED <<authLoading, user, studentSelected>>
  /\ Rerender
  /\ pending' = IF AppNavigator' = "MainTabs" THEN pending
                ELSE BagOfAll(Detach, pending)
  /\ UNCHANGED <<demoMode, signIns, videoVars, chatVars, isStreamReady, csVars, calls,
                 histVars>>
  /\ Acted
  /\ UNCHANGED <<remVars, adminVars>>
  /\ Remember(seen)

\* the sign-out buttons of HomeScreen and CoachStudentSelectionScreen
SignOutVisible ==
  \/ AppNavigator = "MainTabs" /\ ~homeLoading
  \/ AppNavigator = "Selection" /\ ~(csLoading /\ availableStudents = {})

signOut ==
  /\ SignOutVisible /\ ~EffectDue
  /\ user' = None /\ userProfile' = None /\ UNCHANGED authLoading
  /\ AuthenticatedApp /\ CoachStudentProvider
  /\ Rerender
  /\ pending' = DropUi(pending)
  /\ opsInvoked' = {}
  /\ UNCHANGED <<demoMode, signIns, videoVars, chatVars, isStreamReady,
                 calls, leaveInvoked>>
  /\ failed' = {} /\ alert' = None
  /\ UNCHANGED <<remVars, adminVars>>
  /\ Remember(seen)

SignOut == signOut /\ UNCHANGED picked

\* the sign-out, with a note of the selection it discards
SessionSignOut == signOut /\ picked' = (picked \/ studentSelected)

(***************************************************************************)
(* StreamContext: client initialisation and cleanup                        *)
(***************************************************************************)
initializeStreamClientNoDemo ==
  /\ videoError' = None /\ chatError' = None
  /\ videoLoading' = TRUE /\ chatLoading' = TRUE
  /\ pending' = Add(pending, Req("initStream", user, None, None, None))
  /\ UNCHANGED <<isStreamReady, videoClient, videoCall, chatClient,
                 chatChannel, leaveInvoked>>

\* initializeStreamClient up to its first await
initializeStreamClient ==
  /\ videoError' = None /\ chatError' = None
  /\ IF demoMode
     THEN /\ isStreamReady' = TRUE
          /\ videoLoading' = FALSE /\ chatLoading' = FALSE
          /\ UNCHANGED pending
     ELSE /\ videoLoading' = TRUE /\ chatLoading' = TRUE
          /\ pending' = Add(pending, Req("initStream", user, None, None, None))
          /\ UNCHANGED isStreamReady
  /\ UNCHANGED <<videoClient, videoCall, chatClient, chatChannel,
                 leaveInvoked>>

cleanupStream ==
  /\ videoClient' = None /\ chatClient' = None
  /\ videoCall' = None /\ chatChannel' = None
  /\ isStreamReady' = FALSE
  /\ leaveInvoked' = FALSE
  /\ UNCHANGED <<videoLoading, videoError, chatLoading, chatError, pending>>

\* useEffect of StreamProvider on [isAuthenticated, user, userProfile]
StreamEffect ==
  /\ Turn("stream")
  /\ IF isAuthenticated /\ user # None /\ userProfile # None
     THEN initializeStreamClient
     ELSE cleanupStream
  /\ UNCHANGED <<demoMode, signIns, authVars, csVars, navVars, homeVars, chatScrVars,
                 vtVars, calls, opsInvoked>>
  /\ UNCHANGED noteVars
  /\ UNCHANGED <<remVars, adminVars>>
  /\ Remember(Ran("stream"))

InitStreamDoneNoFinally(r, ok) ==
  /\ r \in InFlight("initStream") /\ ~EffectDue
  /\ pending' = Remove(pending, r)
  /\ IF ok
     THEN /\ videoClient' = r.u /\ chatClient' = r.u
          /\ isStreamReady' = TRUE
          /\ videoLoading' = FALSE /\ chatLoading' = FALSE
          /\ UNCHANGED <<videoError, chatError>>
     ELSE /\ videoError' = "Failed to initialize video client"
          /\ chatError' = "Failed to initialize chat client"
          /\ UNCHANGED <<videoClient, chatClient, isStreamReady,
                         videoLoading, chatLoading>>
  /\ UNCHANGED <<demoMode, signIns, authVars, videoCall, chatChannel, csVars, navVars,
                 homeVars, chatScrVars, vtVars, calls, opsInvoked,
                 leaveInvoked>>
  /\ failed' = (IF ok THEN failed ELSE failed \cup {Attempt(r)})
  /\ UNCHANGED <<picked, alert>>
  /\ UNCHANGED <<remVars, adminVars>>
  /\ Remember(seen)

\* the token request and the client connections of initializeStreamClient
\* return (ok) or one of them throws
InitStreamDone(r, ok) ==
  /\ r \in InFlight("initStream") /\ ~EffectDue
  /\ pending' = Remove(pending, r)
  /\ IF ok
     THEN /\ videoClient' = r.u /\ chatClient' = r.u
          /\ isStreamReady' = TRUE
          /\ UNCHANGED <<videoError, chatError>>
     ELSE /\ videoError' = "Failed to initialize video client"
          /\ chatError' = "Failed to initialize chat client"
          /\ UNCHANGED <<videoClient, chatClient, isStreamReady>>
  /\ videoLoading' = FALSE /\ chatLoading' = FALSE
  /\ UNCHANGED <<demoMode, signIns, authVars, videoCall, chatChannel, csVars, navVars,
                 homeVars, chatScrVars, vtVars, calls, opsInvoked,
                 leaveInvoked>>
  /\ failed' = (IF ok THEN failed ELSE failed \cup {Attempt(r)})
  /\ UNCHANGED <<picked, alert>>
  /\ UNCHANGED <<remVars, adminVars>>
  /\ Remember(seen)

(***************************************************************************)
(* CoachStudentContext and the partner-selection screen                    *)
(***************************************************************************)
\* loadStudents up to its await
loadStudents ==
  IF userProfile = None \/ RoleOf(userProfile) # "coach"
  THEN UNCHANGED <<csLoading, csError, pending>>
  ELSE /\ csLoading' = TRUE /\ csError' = None
       /\ pending' = Add(pending, Req("loadStudents", userProfile, None, None, None))

\* useEffect of CoachStudentProvider on [userProfile]
CoachProviderEffect ==
  /\ Turn("coachProvider")
  /\ IF RoleOf(userProfile) = "coach" THEN loadStudents
     ELSE UNCHANGED <<csLoading, csError, pending>>
  /\ UNCHANGED <<demoMode, signIns, authVars, videoVars, chatVars, isStreamReady,
                 selectedStudent, availableStudents, navVars, homeVars,
                 chatScrVars, vtVars, calls, histVars>>
  /\ UNCHANGED noteVars
  /\ UNCHANGED <<remVars, adminVars>>
  /\ Remember(Ran("coachProvider"))

\* useEffect of CoachStudentSelectionScreen on [userProfile]
SelectionEffect ==
  /\ Turn("selection")
  /\ IF RoleOf(userProfile) = "coach" THEN loadStudents
     ELSE UNCHANGED <<csLoading, csError, pending>>
  /\ UNCHANGED <<demoMode, signIns, authVars, videoVars, chatVars, isStreamReady,
                 selectedStudent, availableStudents, navVars, homeVars,
                 chatScrVars, vtVars, calls, histVars>>
  /\ UNCHANGED noteVars
  /\ UNCHANGED <<remVars, adminVars>>
  /\ Remember(Ran("selection"))

\* the Retry button (shown with an error) and pull-to-refresh (on the list)
RetryLoadStudents ==
  /\ AppNavigator = "Selection" /\ ~EffectDue /\ Room
  /\ ~(csLoading /\ availableStudents = {})
  /\ csError # None \/ availableStudents # {}
  /\ loadStudents
  /\ UNCHANGED <<demoMode, signIns, authVars, videoVars, chatVars, isStreamReady,
                 selectedStudent, availableStudents, navVars, homeVars,
                 chatScrVars, vtVars, calls, histVars>>
  /\ Acted
  /\ UNCHANGED <<remVars, adminVars>>
  /\ Remember(seen)

\* the assignments query of loadStudents returns (ok) or fails
LoadStudentsDone(r, ok) ==
  /\ r \in InFlight("loadStudents") /\ ~EffectDue
  /\ pending' = Remove(pending, r)
  /\ IF ok
     THEN availableStudents' = StudentsOf(r.u) /\ UNCHANGED csError
     ELSE csError' = "Failed to load students" /\ UNCHANGED availableStudents
  /\ csLoading' = FALSE
  /\ UNCHANGED <<demoMode, signIns, authVars, videoVars, chatVars, isStreamReady,
                 selectedStudent, navVars, homeVars, chatScrVars, vtVars,
                 calls, histVars>>
  /\ UNCHANGED noteVars
  /\ UNCHANGED <<remVars, adminVars>>
  /\ Remember(seen)

\* a row pressed that the loaded list does not hold
handleStudentSelectUnlisted(student) ==
  /\ AppNavigator = "Selection" /\ ~EffectDue
  /\ student \in StudentsOfAnyStatus(userProfile)
  /\ selectedStudent' = student
  /\ studentSelected' = TRUE
  /\ UNCHANGED <<authVars, availableStudents, csLoading, csError>>
  /\ Rerender
  /\ UNCHANGED <<demoMode, signIns, videoVars, chatVars, isStreamReady, pending,
                 calls, histVars>>
  /\ Acted
  /\ UNCHANGED <<remVars, adminVars>>
  /\ Remember(seen)

\* handleStudentSelect: a row of the student list is pressed; selectStudent
\* and the onStudentSelected callback of AuthenticatedApp run
handleStudentSelect(student) ==
  /\ AppNavigator = "Selection" /\ ~EffectDue
  /\ student \in availableStudents
  /\ selectedStudent' = student
  /\ studentSelected' = TRUE
  /\ UNCHANGED <<authVars, availableStudents, csLoading, csError>>
  /\ Rerender
  /\ UNCHANGED <<demoMode, signIns, videoVars, chatVars, isStreamReady, pending,
                 calls, histVars>>
  /\ Acted
  /\ UNCHANGED <<remVars, adminVars>>
  /\ Remember(seen)

(***************************************************************************)
(* AuthenticatedApp / MainTabs navigation                                  *)
(***************************************************************************)
\* useEffect of AuthenticatedApp on [videoCall]: navigate to the VideoCall tab
NavigatorEffect ==
  /\ Turn("navigator")
  /\ IF videoCall # None /\ AppNavigator = "MainTabs"
     THEN mountedTabs' = mountedTabs \cup {"VideoCall"}
     ELSE UNCHANGED mountedTabs
  /\ UNCHANGED <<demoMode, signIns, authVars, videoVars, chatVars, isStreamReady,
                 csVars, studentSelected, homeVars, chatScrVars, vtVars,
                 pending, calls, histVars>>
  /\ UNCHANGED noteVars
  /\ UNCHANGED <<remVars, adminVars>>
  /\ Remember(Ran("navigator"))

\* a tab of the bottom tab bar is pressed for the first time and its screen
\* mounts.  The focused tab is not part of the state: the tab bar is always
\* there on MainTabs, so a press on a mounted screen can always be preceded
\* by a switch to its tab, which changes nothing else.
SwitchTab(t) ==
  /\ AppNavigator = "MainTabs" /\ ~EffectDue
  /\ t \in {"Chat", "VideoCall"} /\ t \notin mountedTabs
  /\ mountedTabs' = mountedTabs \cup {t}
  /\ UNCHANGED <<demoMode, signIns, authVars, videoVars, chatVars, isStreamReady,
                 csVars, studentSelected, homeVars, chatScrVars, vtVars,
                 pending, calls, histVars>>
  /\ Acted
  /\ UNCHANGED <<remVars, adminVars>>
  /\ Remember(seen)

(***************************************************************************)
(* The communications platform                                             *)
(***************************************************************************)
MembersSelfOnly(u, p) == {u}

\* members: [{ user_id: user.id }, { user_id: partnerId }]
Members(u, p) == {u, p}

SessionRecords(id) == { c \in BagToSet(calls) : c.id = id }

getOrCreateAlwaysCreates(id, members, by) ==
  Add(calls, [id |-> id, members |-> members, created_by |-> by])

\* call.getOrCreate({members}) by user `by`: fetch the session when it
\* exists, else create it with the given members
getOrCreate(id, members, by) ==
  IF SessionRecords(id) # {} THEN calls
  ELSE Add(calls, [id |-> id, members |-> members, created_by |-> by])

(***************************************************************************)
(* StreamContext: video call                                               *)
(***************************************************************************)
\* initializeVideoCall(partnerId) up to its await; k names the caller whose
\* continuation follows the call
\* the dialog raised by the catch block of the caller of initializeVideoCall:
\* handleJoinSession (k = "home") or handleStartVideoCall (k = "tab")
CatchAlert(k) ==
  IF k = "home" THEN "Video gorusmeye katilirken bir hata olustu."
  ELSE "Video gorusme baslatilamadi"

\* initializeVideoCall(partnerId) throws before its await
initializeVideoCallThrows(partnerId) ==
  \/ videoClient = None \/ user = None
  \/ ~demoMode /\ createVideoCallId(user, partnerId) = InvalidIdentifier

\* the invocation that threw, with the error it threw
Thrown(partnerId) ==
  Req("initializeVideoCall", user, partnerId,
      IF videoClient = None \/ user = None THEN "Video client not initialized"
      ELSE InvalidIdentifier, None)

initializeVideoCall(partnerId, k) ==
  /\ opsInvoked' = opsInvoked \cup {"initializeVideoCall"}
  /\ IF videoClient = None \/ user = None
     THEN \* throws 'Video client not initialized'
          UNCHANGED <<videoCall, pending, leaveInvoked>>
     ELSE IF demoMode
     THEN /\ videoCall' = "demo-call"
          /\ leaveInvoked' = FALSE
          /\ UNCHANGED pending
     ELSE LET callId == createVideoCallId(user, partnerId)
          IN IF callId = InvalidIdentifier
             THEN \* createVideoCallId throws
                  UNCHANGED <<videoCall, pending, leaveInvoked>>
             ELSE /\ pending' = Add(pending, Req("getOrCreate", user, partnerId,
                                                 callId, k))
                  /\ UNCHANGED <<videoCall, leaveInvoked>>

GetOrCreateDoneErrorSwallowed(r, ok) ==
  /\ r \in InFlight("getOrCreate") /\ ~EffectDue
  /\ ok \in BOOLEAN
  /\ calls' = getOrCreate(r.c, Members(r.u, r.p), r.u)
  /\ videoCall' = r.c
  /\ leaveInvoked' = FALSE
  /\ IF r.k = "home"
     THEN pending' = Add(Remove(pending, r), Req("join", None, None, r.c, "home"))
     ELSE pending' = Remove(pending, r)
  /\ UNCHANGED <<demoMode, signIns, authVars, videoClient, videoLoading, videoError,
                 chatVars, isStreamReady, csVars, navVars, homeVars,
                 chatScrVars, vtVars, opsInvoked, noteVars>>
  /\ UNCHANGED <<remVars, adminVars>>
  /\ Remember(seen)

\* call.getOrCreate of initializeVideoCall returns (ok) or throws; after it,
\* handleJoinSession (k = "home") goes on to startVideoCall(call)
GetOrCreateDone(r, ok) ==
  /\ r \in InFlight("getOrCreate") /\ ~EffectDue
  /\ IF ok
     THEN /\ calls' = getOrCreate(r.c, Members(r.u, r.p), r.u)
          /\ videoCall' = r.c
          /\ leaveInvoked' = FALSE
          /\ IF r.k = "home"
             THEN /\ pending' = Add(Remove(pending, r),
                                    Req("join", None, None, r.c, "home"))
             ELSE pending' = Remove(pending, r)
          /\ UNCHANGED <<failed, alert>>
     ELSE /\ pending' = Remove(pending, r)
          /\ failed' = failed \cup {Attempt(r)}
          /\ alert' = CatchAlert(r.k)
          /\ UNCHANGED <<calls, videoCall, leaveInvoked>>
  /\ UNCHANGED picked
  /\ UNCHANGED <<demoMode, signIns, authVars, videoClient, videoLoading, videoError,
                 chatVars, isStreamReady, csVars, navVars, homeVars,
                 chatScrVars, vtVars, opsInvoked>>
  /\ UNCHANGED <<remVars, adminVars>>
  /\ Remember(seen)

\* the paired participant's client, on another device, runs
\* initializeVideoCall(partnerId) as user u: it derives the call id from its
\* own (self, partner) order and its getOrCreate reaches the platform
PeerPairs ==
  { <<a.coach_id, a.student_id>> : a \in { x \in Assignments : x.is_active } }
  \cup { <<a.student_id, a.coach_id>> : a \in { x \in Assignments : x.is_active } }

PeerInitializeVideoCall(u, partnerId) ==
  /\ partnerId = user /\ <<u, partnerId>> \in PeerPairs /\ ~EffectDue
  /\ calls' = getOrCreate(createVideoCallId(u, partnerId), Members(u, partnerId), u)
  /\ UNCHANGED <<demoMode, signIns, authVars, videoVars, chatVars, isStreamReady,
                 csVars, navVars, homeVars, chatScrVars, vtVars, pending,
                 histVars>>
  /\ UNCHANGED noteVars
  /\ UNCHANGED <<remVars, adminVars>>
  /\ Remember(seen)

\* useEffect of VideoCallScreen on [videoCall, startVideoCall]: auto-join
AutoJoinEffect ==
  /\ Turn("autoJoin")
  /\ IF videoCall # None /\ ~demoMode
     THEN /\ pending' = Add(pending, Req("join", None, None, videoCall, None))
     ELSE UNCHANGED pending
  /\ UNCHANGED <<demoMode, signIns, authVars, videoVars, chatVars, isStreamReady,
                 csVars, navVars, homeVars, chatScrVars, vtVars, calls, opsInvoked, leaveInvoked>>
  /\ UNCHANGED noteVars
  /\ UNCHANGED <<remVars, adminVars>>
  /\ Remember(Ran("autoJoin"))

\* call.join() of startVideoCall returns or throws; handleJoinSession
\* (k = "home") then raises a dialog, the auto-join effect does not
JoinDone(r, ok) ==
  /\ r \in InFlight("join") /\ ~EffectDue
  /\ ok \in BOOLEAN
  /\ pending' = Remove(pending, r)
  /\ failed' = (IF ok THEN failed ELSE failed \cup {Attempt(r)})
  /\ alert' = (IF r.k # "home" THEN alert
               ELSE IF ok THEN "Video gorusmeye katildiniz!" ELSE CatchAlert("home"))
  /\ UNCHANGED picked
  /\ UNCHANGED <<demoMode, signIns, authVars, videoVars, chatVars, isStreamReady,
                 csVars, navVars, homeVars, chatScrVars, vtVars, calls,
                 histVars>>
  /\ UNCHANGED <<remVars, adminVars>>
  /\ Remember(seen)

endVideoCallNoGuard(k) ==
  /\ pending' = Add(pending, Req("leave", user, None, videoCall, k))
  /\ leaveInvoked' = TRUE

\* endVideoCall up to its await on leave(); it returns at once when there is
\* no call.  k names the caller whose continuation follows
endVideoCall(k) ==
  IF videoCall = None
  THEN UNCHANGED <<pending, leaveInvoked>>
  ELSE /\ pending' = Add(pending, Req("leave", user, None, videoCall, k))
       /\ leaveInvoked' = TRUE

\* the call reaches CallingState.LEFT while VideoCallContent is shown:
\* onCallEnd runs endVideoCall
CallLeft ==
  /\ VideoCallScreenMounted /\ videoClient # None /\ ~EffectDue /\ Room
  /\ endVideoCall("ui")
  /\ UNCHANGED <<demoMode, signIns, authVars, videoVars, chatVars, isStreamReady,
                 csVars, navVars, homeVars, chatScrVars, vtVars, calls, opsInvoked>>
  /\ Acted
  /\ UNCHANGED <<remVars, adminVars>>
  /\ Remember(seen)

\* endVideoCall of the context value is invoked while no call is held (the
\* screens invoke it only through onCallEnd, which runs with a call)
EndVideoCallIdle ==
  /\ isAuthenticated /\ videoCall = None /\ ~EffectDue
  /\ endVideoCall("direct")
  /\ UNCHANGED <<demoMode, signIns, authVars, videoVars, chatVars, isStreamReady,
                 csVars, navVars, homeVars, chatScrVars, vtVars, calls, opsInvoked>>
  /\ UNCHANGED noteVars
  /\ UNCHANGED <<remVars, adminVars>>
  /\ Remember(seen)

LeaveDoneErrorSwallowed(r, ok) ==
  /\ r \in InFlight("leave") /\ ~EffectDue
  /\ ok \in BOOLEAN
  /\ pending' = Remove(pending, r)
  /\ videoCall' = None /\ leaveInvoked' = FALSE
  /\ showVideoCall' = IF r.k = "ui" THEN FALSE ELSE showVideoCall
  /\ UNCHANGED <<demoMode, signIns, authVars, videoClient, videoLoading, videoError,
                 chatVars, isStreamReady, csVars, navVars, homeVars,
                 chatScrVars, vtLoading, callPartner, calls,
                 opsInvoked>>
  /\ UNCHANGED noteVars
  /\ UNCHANGED <<remVars, adminVars>>
  /\ Remember(seen)

\* videoCall.leave() of endVideoCall returns (ok) or throws; onCallEnd then
\* hides the call screen if VideoCallTabScreen is still mounted
LeaveDone(r, ok) ==
  /\ r \in InFlight("leave") /\ ~EffectDue
  /\ pending' = Remove(pending, r)
  /\ IF ok
     THEN videoCall' = None /\ leaveInvoked' = FALSE
     ELSE UNCHANGED <<videoCall, leaveInvoked>>
  /\ showVideoCall' = IF r.k = "ui" THEN FALSE ELSE showVideoCall
  /\ UNCHANGED <<demoMode, signIns, authVars, videoClient, videoLoading, videoError,
                 chatVars, isStreamReady, csVars, navVars, homeVars,
                 chatScrVars, vtLoading, callPartner, calls,
                 opsInvoked>>
  /\ UNCHANGED noteVars
  /\ UNCHANGED <<remVars, adminVars>>
  /\ Remember(seen)

(***************************************************************************)
(* StreamContext: chat channel                                             *)
(***************************************************************************)
\* initializeChatChannel(partnerId) up to its await
initializeChatChannel(partnerId) ==
  /\ opsInvoked' = opsInvoked \cup {"initializeChatChannel"}
  /\ IF demoMode
     THEN /\ chatLoading' = FALSE /\ chatError' = None
          /\ UNCHANGED pending
     ELSE IF chatClient = None \/ user = None \/ userProfile = None
     THEN /\ chatLoading' = FALSE
          /\ chatError' = "Failed to initialize chat channel"
          /\ UNCHANGED pending
     ELSE /\ chatLoading' = TRUE /\ chatError' = None
          /\ pending' = Add(pending, Req("initChat", user, partnerId, chatClient, None))

\* createChatChannel returns (ok) or throws
InitChatDone(r, ok) ==
  /\ r \in InFlight("initChat") /\ ~EffectDue
  /\ pending' = Remove(pending, r)
  /\ IF ok
     THEN chatChannel' = createChatChannelId(r.u, r.p) /\ UNCHANGED chatError
     ELSE chatError' = "Failed to initialize chat channel" /\ UNCHANGED chatChannel
  /\ chatLoading' = FALSE
  /\ UNCHANGED <<demoMode, signIns, authVars, videoVars, chatClient, isStreamReady,
                 csVars, navVars, homeVars, chatScrVars, vtVars, calls,
                 histVars>>
  /\ failed' = (IF ok THEN failed ELSE failed \cup {Attempt(r)})
  /\ UNCHANGED <<picked, alert>>
  /\ UNCHANGED <<remVars, adminVars>>
  /\ Remember(seen)

(***************************************************************************)
(* HomeScreen                                                              *)
(***************************************************************************)
\* session start minus now, in milliseconds, at a press of the join button:
\* the two edges of the join window and the instants next to them
TimeDiffs == {-3600001, -3600000, 659999, 660000}

\* Math.floor(timeDiff / (1000 * 60))
minutesUntilSession(timeDiff) == timeDiff \div (1000 * 60)

\* minutesUntilSession values a press of the join button can see
JoinMinutes == { minutesUntilSession(d) : d \in TimeDiffs }

getSessionStatusFromStart(m) ==
  IF m > 10 THEN [text |-> "dk sonra", canJoin |-> FALSE]
  ELSE IF m >= 0 THEN [text |-> "Katilabilirsiniz", canJoin |-> TRUE]
  ELSE [text |-> "Sona erdi", canJoin |-> FALSE]

\* getSessionStatus(session), rendered m minutes before the session starts
getSessionStatus(m) ==
  IF m > 10 THEN [text |-> "dk sonra", canJoin |-> FALSE]
  ELSE IF m >= -60 THEN [text |-> "Katilabilirsiniz", canJoin |-> TRUE]
  ELSE [text |-> "Sona erdi", canJoin |-> FALSE]

\* loadData up to its await
loadData ==
  /\ homeLoading' = TRUE
  /\ pending' = Add(pending, Req("loadData", userProfile, selectedStudent, None, None))
  /\ UNCHANGED <<homeCoach, upcomingSessions>>

\* useEffect of HomeScreen on [userProfile, selectedStudent]
HomeEffect ==
  /\ Turn("home")
  /\ IF userProfile # None THEN loadData
     ELSE UNCHANGED <<homeVars, pending>>
  /\ UNCHANGED <<demoMode, signIns, authVars, videoVars, chatVars, isStreamReady,
                 csVars, navVars, chatScrVars, vtVars, calls, histVars>>
  /\ UNCHANGED noteVars
  /\ UNCHANGED <<remVars, adminVars>>
  /\ Remember(Ran("home"))

HomeVisible == AppNavigator = "MainTabs" /\ ~homeLoading

\* pull-to-refresh of HomeScreen
handleRefresh ==
  /\ HomeVisible /\ ~EffectDue /\ Room
  /\ loadData
  /\ UNCHANGED <<demoMode, signIns, authVars, videoVars, chatVars, isStreamReady,
                 csVars, navVars, chatScrVars, vtVars, calls, histVars>>
  /\ Acted
  /\ UNCHANGED <<remVars, adminVars>>
  /\ Remember(seen)

\* which scheduleNotificationAsync call of one scheduleSessionReminders run
\* throws: none (0), or the one for Offsets[i]
ThrowsAt == 0..3

reminderDueAtInstant(d, i) == d - Offsets[i] >= 0

\* reminder24h > now.getTime(), and likewise for the other offsets
reminderDue(d, i) == d - Offsets[i] > 0

\* NotificationService.scheduleSessionReminders for a session that starts
\* start[1] ms from now (<<>>: no date or start time): the offsets of the
\* reminders it schedules.  A call that throws ends the function in its
\* catch block.
RECURSIVE scheduleFrom(_, _, _)
scheduleFrom(i, d, throwsAt) ==
  IF i > 3 THEN {}
  ELSE IF ~reminderDue(d, i) THEN scheduleFrom(i + 1, d, throwsAt)
  ELSE IF throwsAt = i THEN {}
  ELSE {Offsets[i]} \cup scheduleFrom(i + 1, d, throwsAt)

scheduleSessionReminders(start, throwsAt) ==
  IF start = <<>> THEN {}
  ELSE IF start[1] <= 0 THEN {}
  ELSE scheduleFrom(1, start[1], throwsAt)

\* the loop of fetchUpcomingSessions over the rows it has loaded
ScheduleAll(sessions, start, throwsAt) ==
  LET new == { [sessionId |-> session.id, offset |-> o] :
                 session \in sessions,
                 o \in scheduleSessionReminders(start, throwsAt) }
  IN reminders (+) SetToBag(new)

\* the queries of loadData (fetchAssignedCoach, fetchUpcomingSessions)
\* return rows (ok) or return nothing; fetchUpcomingSessions then schedules
\* the reminders of every row
fetchUpcomingSessionsDone(r, ok, throwsAt) ==
  /\ r \in InFlight("loadData") /\ ~EffectDue
  /\ pending' = Remove(pending, r)
  /\ homeCoach' = IF ok /\ RoleOf(r.u) = "student" /\ CoachOf(r.u) # None
                  THEN CoachOf(r.u) ELSE homeCoach
  /\ upcomingSessions' =
       IF ok /\ (RoleOf(r.u) = "student" \/ (RoleOf(r.u) = "coach" /\ r.p # None))
       THEN SessionsFor(RoleOf(r.u), r.u, r.p) ELSE upcomingSessions
  /\ reminders' =
       IF ok /\ (RoleOf(r.u) = "student" \/ (RoleOf(r.u) = "coach" /\ r.p # None))
       THEN ScheduleAll(SessionsFor(RoleOf(r.u), r.u, r.p), untilStart, throwsAt)
       ELSE reminders
  /\ homeLoading' = FALSE
  /\ UNCHANGED <<demoMode, signIns, authVars, videoVars, chatVars, isStreamReady,
                 csVars, navVars, chatScrVars, vtVars, calls, histVars>>
  /\ UNCHANGED noteVars
  /\ UNCHANGED <<untilStart, adminVars>>
  /\ Remember(seen)

LoadDataDone(r, ok) ==
  \E throwsAt \in ThrowsAt : fetchUpcomingSessionsDone(r, ok, throwsAt)

\* handleJoinSession(session), pressed m minutes before the session starts
handleJoinSession(session, m) ==
  /\ HomeVisible /\ ~EffectDue /\ Room
  /\ session \in upcomingSessions
  /\ LET partnerId == IF RoleOf(userProfile) = "student"
                      THEN session.assigned_by ELSE session.assigned_to
     IN IF demoMode \/ m > 10 \/ m < -60
        THEN /\ alert' = (IF demoMode THEN "Demo Mode"
                          ELSE IF m > 10 THEN "Sesyon Henuz Baslamadi"
                          ELSE "Sesyon Sona Erdi")
             /\ UNCHANGED <<videoCall, pending, histVars>>
             /\ failed' = {}
        ELSE /\ initializeVideoCall(partnerId, "home")
             /\ alert' = (IF initializeVideoCallThrows(partnerId)
                          THEN CatchAlert("home") ELSE None)
             /\ failed' = (IF initializeVideoCallThrows(partnerId)
                           THEN {Thrown(partnerId)} ELSE {})
  /\ UNCHANGED picked
  /\ UNCHANGED <<demoMode, signIns, authVars, videoClient, videoLoading, videoError,
                 chatVars, isStreamReady, csVars, navVars, homeVars,
                 chatScrVars, vtVars, calls>>
  /\ UNCHANGED <<remVars, adminVars>>
  /\ Remember(seen)

(***************************************************************************)
(* ChatScreen                                                              *)
(***************************************************************************)
\* first useEffect of ChatScreen, on [userProfile, selectedStudent]
ChatEffect ==
  /\ Turn("chat")
  /\ IF RoleOf(userProfile) = "student"
     THEN /\ chatScrLoading' = TRUE
          /\ pending' = Add(pending, Req("fetchCoach", userProfile, None, None, "chat"))
          /\ UNCHANGED chatPartner
     ELSE IF RoleOf(userProfile) = "coach"
     THEN /\ chatPartner' = selectedStudent
          /\ chatScrLoading' = FALSE
          /\ UNCHANGED pending
     ELSE UNCHANGED <<chatScrVars, pending>>
  /\ UNCHANGED <<demoMode, signIns, authVars, videoVars, chatVars, isStreamReady,
                 csVars, navVars, homeVars, vtVars, calls, histVars>>
  /\ UNCHANGED noteVars
  /\ UNCHANGED <<remVars, adminVars>>
  /\ Remember(Ran("chat"))

\* second useEffect of ChatScreen: initializeChatChannel for the partner
ChatInitEffect ==
  /\ Turn("chatInit")
  /\ initializeChatChannel(chatPartner)
  /\ UNCHANGED <<demoMode, signIns, authVars, videoVars, chatClient, chatChannel,
                 isStreamReady, csVars, navVars, homeVars, chatScrVars,
                 vtVars, calls, leaveInvoked>>
  /\ UNCHANGED noteVars
  /\ UNCHANGED <<remVars, adminVars>>
  /\ Remember(seen)

(***************************************************************************)
(* VideoCallTabScreen                                                      *)
(***************************************************************************)
\* first useEffect of VideoCallTabScreen, on [userProfile, selectedStudent]
VideoTabEffect ==
  /\ Turn("videoTab")
  /\ IF RoleOf(userProfile) = "student"
     THEN /\ vtLoading' = TRUE
          /\ pending' = Add(pending, Req("fetchCoach", userProfile, None, None, "video"))
          /\ UNCHANGED callPartner
     ELSE IF RoleOf(userProfile) = "coach"
     THEN /\ callPartner' = selectedStudent
          /\ vtLoading' = FALSE
          /\ UNCHANGED pending
     ELSE UNCHANGED <<vtLoading, callPartner, pending>>
  /\ UNCHANGED <<demoMode, signIns, authVars, videoVars, chatVars, isStreamReady,
                 csVars, navVars, homeVars, chatScrVars, showVideoCall, calls,
                 histVars>>
  /\ UNCHANGED noteVars
  /\ UNCHANGED <<remVars, adminVars>>
  /\ Remember(Ran("videoTab"))

\* second useEffect of VideoCallTabScreen, on [videoCall]
VideoTabCallEffect ==
  /\ Turn("videoTabCall")
  /\ showVideoCall' = IF videoCall # None THEN TRUE ELSE showVideoCall
  /\ UNCHANGED <<demoMode, signIns, authVars, videoVars, chatVars, isStreamReady,
                 csVars, navVars, homeVars, chatScrVars, vtLoading,
                 callPartner, pending, calls, histVars>>
  /\ UNCHANGED noteVars
  /\ UNCHANGED <<remVars, adminVars>>
  /\ Remember(Ran("videoTabCall"))

\* fetchAssignedCoach of ChatScreen (k = "chat") or VideoCallTabScreen
\* (k = "video"): the assignment query returns a row (ok) or nothing
FetchCoachDone(r, ok) ==
  /\ r \in InFlight("fetchCoach") /\ ~EffectDue
  /\ pending' = Remove(pending, r)
  /\ LET coach == IF ok THEN CoachOf(r.u) ELSE None
     IN IF r.k = "chat"
        THEN /\ chatPartner' = IF coach # None THEN coach ELSE chatPartner
             /\ chatScrLoading' = FALSE
             /\ UNCHANGED <<vtLoading, callPartner>>
        ELSE /\ callPartner' = IF coach # None THEN coach ELSE callPartner
             /\ vtLoading' = FALSE
             /\ UNCHANGED <<chatScrLoading, chatPartner>>
  /\ UNCHANGED <<demoMode, signIns, authVars, videoVars, chatVars, isStreamReady,
                 csVars, navVars, homeVars, showVideoCall, calls, histVars>>
  /\ UNCHANGED noteVars
  /\ UNCHANGED <<remVars, adminVars>>
  /\ Remember(seen)

\* the start button of VideoCallTabScreen
StartButtonEnabled ==
  /\ AppNavigator = "MainTabs" /\ "VideoCall" \in mountedTabs
  /\ ~(showVideoCall /\ videoCall # None) /\ ~vtLoading
  /\ callPartner # None
  /\ isStreamReady /\ ~videoLoading

\* a press of the start button runs handleStartVideoCall
handleStartVideoCall ==
  /\ StartButtonEnabled /\ ~EffectDue /\ Room
  /\ IF callPartner = None
     THEN /\ alert' = (IF RoleOf(userProfile) = "student"
                       THEN "Atanmis kocunuz bulunamadi"
                       ELSE "Secili ogrenciniz bulunamadi")
          /\ UNCHANGED <<videoCall, pending, histVars>>
          /\ failed' = {}
     ELSE /\ initializeVideoCall(callPartner, "tab")
          /\ alert' = (IF initializeVideoCallThrows(callPartner)
                       THEN CatchAlert("tab") ELSE None)
          /\ failed' = (IF initializeVideoCallThrows(callPartner)
                        THEN {Thrown(callPartner)} ELSE {})
  /\ UNCHANGED picked
  /\ UNCHANGED <<demoMode, signIns, authVars, videoClient, videoLoading, videoError,
                 chatVars, isStreamReady, csVars, navVars, homeVars,
                 chatScrVars, vtVars, calls>>
  /\ UNCHANGED <<remVars, adminVars>>
  /\ Remember(seen)

(***************************************************************************)
(* Specification                                                           *)
(***************************************************************************)
Next ==
  \/ AuthLoaded
  \/ \E u \in UserIds : \E p \in {None, u} : SignIn(u, p)
  \/ ProfileLoaded
  \/ SignOut
  \/ StreamEffect
  \/ \E r \in InFlight("initStream"), ok \in BOOLEAN : InitStreamDone(r, ok)
  \/ CoachProviderEffect
  \/ SelectionEffect
  \/ RetryLoadStudents
  \/ \E r \in InFlight("loadStudents"), ok \in BOOLEAN : LoadStudentsDone(r, ok)
  \/ \E s \in UserIds : handleStudentSelect(s)
  \/ NavigatorEffect
  \/ \E t \in {"Chat", "VideoCall"} : SwitchTab(t)
  \/ HomeEffect
  \/ handleRefresh
  \/ \E r \in InFlight("loadData"), ok \in BOOLEAN : LoadDataDone(r, ok)
  \/ \E t \in Tasks, m \in JoinMinutes : handleJoinSession(t, m)
  \/ \E r \in InFlight("getOrCreate"), ok \in BOOLEAN : GetOrCreateDone(r, ok)
  \/ \E u \in UserIds : \E q \in UserIds : PeerInitializeVideoCall(u, q)
  \/ AutoJoinEffect
  \/ \E r \in InFlight("join"), ok \in BOOLEAN : JoinDone(r, ok)
  \/ CallLeft
  \/ EndVideoCallIdle
  \/ \E r \in InFlight("leave"), ok \in BOOLEAN : LeaveDone(r, ok)
  \/ ChatEffect
  \/ ChatInitEffect
  \/ \E r \in InFlight("initChat"), ok \in BOOLEAN : InitChatDone(r, ok)
  \/ VideoTabEffect
  \/ VideoTabCallEffect
  \/ \E r \in InFlight("fetchCoach"), ok \in BOOLEAN : FetchCoachDone(r, ok)
  \/ handleStartVideoCall

Spec == Init /\ [][Next]_vars

\* an effect that is scheduled runs
Effects ==
  \/ StreamEffect \/ CoachProviderEffect \/ SelectionEffect \/ NavigatorEffect
  \/ HomeEffect \/ ChatEffect \/ ChatInitEffect \/ VideoTabEffect
  \/ VideoTabCallEffect \/ AutoJoinEffect

\* the call of operation op that is in flight returns or throws
Completion(op) ==
  \E r \in InFlight(op), ok \in BOOLEAN :
    CASE op = "initStream" -> InitStreamDone(r, ok)
      [] op = "loadStudents" -> LoadStudentsDone(r, ok)
      [] op = "loadData" -> LoadDataDone(r, ok)
      [] op = "getOrCreate" -> GetOrCreateDone(r, ok)
      [] op = "join" -> JoinDone(r, ok)
      [] op = "leave" -> LeaveDone(r, ok)
      [] op = "initChat" -> InitChatDone(r, ok)
      [] op = "fetchCoach" -> FetchCoachDone(r, ok)

Operations ==
  {"initStream", "loadStudents", "loadData", "getOrCreate", "join", "leave",
   "initChat", "fetchCoach"}

\* Scheduled effects run, the stored session and the profile row are looked
\* up, and every call in flight returns or throws.  Nothing obliges the user
\* to act.
Fairness ==
  /\ WF_vars(Effects) /\ WF_vars(AuthLoaded) /\ WF_vars(ProfileLoaded)
  /\ \A op \in Operations : WF_vars(Completion(op))

SpecLive == Init /\ [][Next]_vars /\ Fairness

\* Several sign-ins on the device, by any users.  The sessions stay on the
\* sign-in gate, the partner selection and the home screen: no other tab is
\* opened and no scheduled session is joined.
NextSessions ==
  \/ AuthLoaded
  \/ \E u \in UserIds : \E p \in {None, u} : SessionSignIn(u, p)
  \/ ProfileLoaded
  \/ SessionSignOut
  \/ StreamEffect
  \/ \E r \in InFlight("initStream"), ok \in BOOLEAN : InitStreamDone(r, ok)
  \/ CoachProviderEffect
  \/ SelectionEffect
  \/ RetryLoadStudents
  \/ \E r \in InFlight("loadStudents"), ok \in BOOLEAN : LoadStudentsDone(r, ok)
  \/ \E s \in UserIds : handleStudentSelect(s)
  \/ NavigatorEffect
  \/ HomeEffect
  \/ handleRefresh
  \/ \E r \in InFlight("loadData"), ok \in BOOLEAN : LoadDataDone(r, ok)

SpecSessions == Init /\ [][NextSessions]_vars

\* A student signs out and in again while calls to the platform are in
\* flight.  The sessions stay on the home and chat screens.
NextRaces ==
  \/ AuthLoaded
  \/ RacingSignIn("s1", "s1")
  \/ SignOut
  \/ StreamEffect
  \/ \E r \in InFlight("initStream"), ok \in BOOLEAN : InitStreamDone(r, ok)
  \/ CoachProviderEffect
  \/ NavigatorEffect
  \/ SwitchTab("Chat")
  \/ HomeEffect
  \/ \E r \in InFlight("loadData"), ok \in BOOLEAN : LoadDataDone(r, ok)
  \/ ChatEffect
  \/ ChatInitEffect
  \/ \E r \in InFlight("initChat"), ok \in BOOLEAN : InitChatDone(r, ok)
  \/ \E r \in InFlight("fetchCoach"), ok \in BOOLEAN : FetchCoachDone(r, ok)

SpecRaces == Init /\ [][NextRaces]_vars

\* pull-to-refresh, while the device holds few pending reminders
RefreshReminders ==
  BagCardinality(reminders) < MaxReminders /\ handleRefresh

\* A student opens the app at some instant before or after the scheduled
\* sessions and stays on the home screen.
NextReminders ==
  \/ AuthLoaded
  \/ \E u \in {"s1", "s2"} : SignIn(u, u)
  \/ StreamEffect
  \/ \E r \in InFlight("initStream"), ok \in BOOLEAN : InitStreamDone(r, ok)
  \/ CoachProviderEffect
  \/ NavigatorEffect
  \/ HomeEffect
  \/ RefreshReminders
  \/ \E r \in InFlight("loadData"), ok \in BOOLEAN : LoadDataDone(r, ok)

SpecReminders == InitReminders /\ [][NextReminders]_vars

(***************************************************************************)
(* Web: admin resources page (ResourceManagement)                          *)
(***************************************************************************)
\* .from('user_profiles').select('role').eq('id', id).single(): the role of
\* the row, or null when there is no row
profileRole(id) == IF id \in UserIds THEN Role[id] ELSE None

isAdminProfileAnyRole(profile) == profile # None

\* !(!profile || profile.role !== 'admin')
isAdminProfile(profile) == profile # None /\ profile = "admin"

\* a JavaScript string or null taken as a condition
Truthy(v) == v # None /\ v # Missing

\* .from('resources').select('*').order('created_at', { ascending: false })
RECURSIVE byCreatedAtDesc(_)
byCreatedAtDesc(rows) ==
  IF rows = {} THEN <<>>
  ELSE LET r == CHOOSE x \in rows : \A y \in rows : y.id <= x.id
       IN <<r>> \o byCreatedAtDesc(rows \ {r})

\* resourcesData.forEach of loadSubjectsAndResources, from row i on
RECURSIVE groupFrom(_, _, _)
groupFrom(data, i, bySubject) ==
  IF i > Len(data) THEN bySubject
  ELSE LET resource == data[i]
           key == resource.subject_id
       IN groupFrom(data, i + 1,
            IF Truthy(key)
            THEN IF key \in DOMAIN bySubject
                 THEN [bySubject EXCEPT ![key] = Append(@, resource)]
                 ELSE bySubject @@ (key :> <<resource>>)
            ELSE bySubject)

resourcesBySubject(data) == groupFrom(data, 1, NoGroups)

\* resources[subject.id] || []
GroupOf(subjectId) ==
  IF subjectId \in DOMAIN resources THEN resources[subjectId] ELSE <<>>

SubjectIds(list) == { list[i].id : i \in 1..Len(list) }

Rows(group) == { group[i] : i \in 1..Len(group) }

\* the page is rendered, not the spinner, and no dialog covers it
PageShown == ~loading /\ ~resourceDialogOpen

\* useEffect(() => { checkAuthAndLoadData() }, []): up to the first await
checkAuthAndLoadData ==
  /\ pagePc = "mounted"
  /\ pagePc' = "check.getUser"
  /\ UNCHANGED <<webUser, resourcesTable, pageVars, dialogVars, submitting,
                 expandedSubjects, checkedUser, resourceData, loadFor,
                 redirected, loadInvoked, reloaded>>
  /\ UNCHANGED mobileVars

\* redirect('/login'); return
redirectToLogin ==
  /\ redirected' = "/login" /\ pagePc' = "stopped"
  /\ UNCHANGED <<loadFor, loadInvoked>>

\* loadSubjectsAndResources is called by handler h, up to its first await
loadSubjectsAndResources(h) ==
  /\ loadInvoked' = TRUE /\ loadFor' = h
  /\ pagePc' = "load.subjects"

\* checkAuthAndLoadData: auth.getUser() has returned
CheckGetUserDone ==
  /\ pagePc = "check.getUser"
  /\ checkedUser' = webUser
  /\ IF webUser = None
     THEN redirectToLogin
     ELSE pagePc' = "check.profile" /\ UNCHANGED <<loadFor, redirected, loadInvoked>>
  /\ UNCHANGED <<webUser, resourcesTable, pageVars, dialogVars, submitting,
                 expandedSubjects, resourceData, reloaded>>
  /\ UNCHANGED mobileVars

\* checkAuthAndLoadData: the profile query has returned
CheckProfileDone ==
  /\ pagePc = "check.profile"
  /\ IF ~isAdminProfile(profileRole(checkedUser))
     THEN redirectToLogin
     ELSE loadSubjectsAndResources("check") /\ UNCHANGED redirected
  /\ UNCHANGED <<webUser, resourcesTable, pageVars, dialogVars, submitting,
                 expandedSubjects, checkedUser, resourceData, reloaded>>
  /\ UNCHANGED mobileVars

\* finally { setLoading(false) }, and the return to the awaiting handler:
\* handleResourceSubmit goes on to its own finally
LoadReturns ==
  /\ loading' = FALSE
  /\ pagePc' = "idle" /\ loadFor' = None
  /\ submitting' = IF loadFor = "submit" THEN FALSE ELSE submitting

\* loadSubjectsAndResources: the subjects query has returned
SubjectsLoaded(ok) ==
  /\ pagePc = "load.subjects"
  /\ IF ok
     THEN /\ subjects' = SubjectRows
          /\ pagePc' = "load.resources"
          /\ UNCHANGED <<loading, loadFor, submitting>>
     ELSE LoadReturns /\ UNCHANGED subjects
  /\ UNCHANGED <<webUser, resourcesTable, resources, dialogVars,
                 expandedSubjects, checkedUser, resourceData, redirected,
                 loadInvoked, reloaded>>
  /\ UNCHANGED mobileVars

\* loadSubjectsAndResources: the resources query has returned
ResourcesLoaded(ok) ==
  /\ pagePc = "load.resources"
  /\ resources' = IF ok THEN resourcesBySubject(byCreatedAtDesc(resourcesTable))
                  ELSE resources
  /\ reloaded' = (ok /\ loadFor = "submit")
  /\ LoadReturns
  /\ UNCHANGED <<webUser, resourcesTable, subjects, dialogVars,
                 expandedSubjects, checkedUser, resourceData, redirected,
                 loadInvoked>>
  /\ UNCHANGED mobileVars

\* the browser session ends (sign-out in another tab, expiry)
WebSessionEnds ==
  /\ webUser # None
  /\ webUser' = None
  /\ UNCHANGED <<resourcesTable, pageVars, dialogVars, submitting,
                 expandedSubjects, pagePc, checkedUser, resourceData, loadFor,
                 redirected, loadInvoked, reloaded>>
  /\ UNCHANGED mobileVars

toggleSubjectExpansion(subjectId) ==
  /\ PageShown /\ subjectId \in SubjectIds(subjects)
  /\ expandedSubjects' = IF subjectId \in expandedSubjects
                         THEN expandedSubjects \ {subjectId}
                         ELSE expandedSubjects \cup {subjectId}
  /\ UNCHANGED <<webUser, resourcesTable, pageVars, dialogVars, submitting,
                 pagePc, checkedUser, resourceData, loadFor, redirected,
                 loadInvoked, reloaded>>
  /\ UNCHANGED mobileVars

\* "Yeni Kaynak" (subjectId undefined -> '') or "Kaynak Ekle" of a subject
handleAddResource(subjectId) ==
  /\ PageShown
  /\ subjectId \in {Missing} \cup SubjectIds(subjects)
  /\ editingResource' = <<>>
  /\ resourceFormData' = [subject_id |-> subjectId]
  /\ formError' = None /\ resourceDialogOpen' = TRUE
  /\ UNCHANGED <<webUser, resourcesTable, pageVars, submitting,
                 expandedSubjects, pagePc, checkedUser, resourceData, loadFor,
                 redirected, loadInvoked, reloaded>>
  /\ UNCHANGED mobileVars

\* the Edit button of a resource listed under an expanded subject
handleEditResource(resource) ==
  /\ PageShown
  /\ \E subjectId \in SubjectIds(subjects) \cap expandedSubjects :
       resource \in Rows(GroupOf(subjectId))
  /\ editingResource' = <<resource>>
  /\ resourceFormData' =
       [subject_id |-> IF Truthy(resource.subject_id) THEN resource.subject_id
                       ELSE Missing]
  /\ formError' = None /\ resourceDialogOpen' = TRUE
  /\ UNCHANGED <<webUser, resourcesTable, pageVars, submitting,
                 expandedSubjects, pagePc, checkedUser, resourceData, loadFor,
                 redirected, loadInvoked, reloaded>>
  /\ UNCHANGED mobileVars

\* the subject Select of the form: the empty choice or an active subject
SelectSubject(value) ==
  /\ resourceDialogOpen
  /\ value \in {Missing} \cup
               { subjects[i].id : i \in { j \in 1..Len(subjects) : subjects[j].is_active } }
  /\ value # resourceFormData.subject_id
  /\ resourceFormData' = [subject_id |-> value]
  /\ UNCHANGED <<webUser, resourcesTable, pageVars, resourceDialogOpen,
                 editingResource, formError, submitting, expandedSubjects,
                 pagePc, checkedUser, resourceData, loadFor, redirected,
                 loadInvoked, reloaded>>
  /\ UNCHANGED mobileVars

\* the cancel button, or onClose of the Dialog
CloseDialog ==
  /\ resourceDialogOpen
  /\ resourceDialogOpen' = FALSE
  /\ UNCHANGED <<webUser, resourcesTable, pageVars, editingResource,
                 resourceFormData, formError, submitting, expandedSubjects,
                 pagePc, checkedUser, resourceData, loadFor, redirected,
                 loadInvoked, reloaded>>
  /\ UNCHANGED mobileVars

\* handleResourceSubmit up to its first await; the submit button is
\* disabled while submitting.  resourceData is built from the form data and
\* editingResource of this render.
handleResourceSubmit ==
  /\ resourceDialogOpen /\ ~submitting
  /\ editingResource # <<>> \/ Cardinality(resourcesTable) < MaxResources
  /\ submitting' = TRUE /\ formError' = None
  /\ resourceData' =
       [id |-> IF editingResource # <<>> THEN editingResource[1].id ELSE 0,
        subject_id |-> IF Truthy(resourceFormData.subject_id)
                       THEN resourceFormData.subject_id ELSE None]
  /\ pagePc' = "submit.getUser"
  /\ UNCHANGED <<webUser, resourcesTable, pageVars, resourceDialogOpen,
                 editingResource, resourceFormData, expandedSubjects,
                 checkedUser, loadFor, redirected, loadInvoked, reloaded>>
  /\ UNCHANGED mobileVars

\* handleResourceSubmit: auth.getUser() has returned
SubmitGetUserDone ==
  /\ pagePc = "submit.getUser"
  /\ IF webUser = None
     THEN /\ formError' = "Kullanici oturumu bulunamadi"
          /\ submitting' = FALSE /\ pagePc' = "idle"
     ELSE /\ pagePc' = "submit.write"
          /\ UNCHANGED <<formError, submitting>>
  /\ UNCHANGED <<webUser, resourcesTable, pageVars, resourceDialogOpen,
                 editingResource, resourceFormData, expandedSubjects,
                 checkedUser, resourceData, loadFor, redirected, loadInvoked,
                 reloaded>>
  /\ UNCHANGED mobileVars

\* .update(resourceData).eq('id', id), or .insert(resourceData)
Written(table, data) ==
  IF data.id # 0
  THEN { IF row.id = data.id THEN [row EXCEPT !.subject_id = data.subject_id]
         ELSE row : row \in table }
  ELSE table \cup { [id |-> Cardinality(table) + 1, subject_id |-> data.subject_id] }

\* handleResourceSubmit: the update or the insert has returned
SubmitWriteDone(ok) ==
  /\ pagePc = "submit.write"
  /\ IF ok
     THEN /\ resourcesTable' = Written(resourcesTable, resourceData)
          /\ resourceDialogOpen' = FALSE
          /\ loadSubjectsAndResources("submit")
          /\ reloaded' = FALSE
          /\ UNCHANGED <<formError, submitting>>
     ELSE /\ formError' = "error.message"
          /\ submitting' = FALSE /\ pagePc' = "idle"
          /\ UNCHANGED <<resourcesTable, resourceDialogOpen, loadFor,
                         loadInvoked, reloaded>>
  /\ UNCHANGED <<webUser, pageVars, editingResource, resourceFormData,
                 expandedSubjects, checkedUser, resourceData, redirected>>
  /\ UNCHANGED mobileVars

NextResources ==
  \/ checkAuthAndLoadData
  \/ CheckGetUserDone
  \/ CheckProfileDone
  \/ \E ok \in BOOLEAN : SubjectsLoaded(ok)
  \/ \E ok \in BOOLEAN : ResourcesLoaded(ok)
  \/ WebSessionEnds
  \/ \E subjectId \in SubjectIds(SubjectRows) : toggleSubjectExpansion(subjectId)
  \/ \E subjectId \in {Missing} \cup SubjectIds(SubjectRows) :
       handleAddResource(subjectId)
  \/ \E subjectId \in DOMAIN resources :
       \E resource \in Rows(resources[subjectId]) : handleEditResource(resource)
  \/ \E value \in {Missing} \cup SubjectIds(SubjectRows) : SelectSubject(value)
  \/ CloseDialog
  \/ handleResourceSubmit
  \/ SubmitGetUserDone
  \/ \E ok \in BOOLEAN : SubmitWriteDone(ok)

SpecResources == InitResources /\ [][NextResources]_vars

(***************************************************************************)
(* Properties                                                              *)
(***************************************************************************)
PlatformOps == {"initStream", "getOrCreate", "join", "leave", "initChat"}

\* number of join() calls on call c that have not returned
OutstandingJoins(c) ==
  LET js == { r \in InFlight("join") : r.c = c }
  IN BagCardinality([r \in js |-> pending[r]])

\* the students with an active assignment to a coach, read off the rows
ActiveStudents(coach) ==
  { x.student_id : x \in { a \in Assignments : a.coach_id = coach /\ a.is_active } }

\* C1: the call id derived for a pair of participants does not depend on
\* the order of the pair: every getOrCreate request in flight carries the id
\* its partner derives from (partner, self), and the session records of the
\* platform hold one id per pair of members, so the student's and the
\* coach's initializeVideoCall address the same call.
C1_OrderIndependentCallId ==
  /\ \A a \in UserIds : \A b \in UserIds :
       createVideoCallId(a, b) = createVideoCallId(b, a)
  /\ \A r \in InFlight("getOrCreate") : r.c = createVideoCallId(r.p, r.u)
  /\ \A c \in BagToSet(calls) : \A d \in BagToSet(calls) :
       c.members = d.members => c.id = d.id
  /\ \A r \in InFlight("getOrCreate") : \A c \in BagToSet(calls) :
       c.members = {r.u, r.p} => c.id = r.c

\* the local request is in flight for the session its partner has created
C1_Witness ==
  \E r \in InFlight("getOrCreate") : \E c \in BagToSet(calls) :
    c.created_by = r.p /\ r.p # r.u /\ c.id = r.c

C3_BothMembersRegistered ==
  [][\A r \in InFlight("getOrCreate") :
       GetOrCreateDone(r, TRUE) =>
         /\ SessionRecords(r.c)' # {}
         /\ \A c \in SessionRecords(r.c)' : {r.u, r.p} \subseteq c.members]_vars

\* the signed-in user's call has been created by that user, with two members
C3_Witness ==
  /\ user # None /\ videoCall # None /\ ~demoMode
  /\ \E c \in SessionRecords(videoCall) :
       c.created_by = user /\ user \in c.members /\ Cardinality(c.members) = 2

\* C4: join() is never invoked on the current call while an earlier join()
\* on that call is outstanding.
C4_JoinsSerialized ==
  videoCall # None => OutstandingJoins(videoCall) <= 1

\* C5: whenever videoCall goes from a call to null, leave() has been invoked
\* on that call first.
C5_LeaveBeforeRelease ==
  [][(videoCall # None /\ videoCall' = None) => leaveInvoked]_vars

\* C6: in demo mode the step that invokes initializeVideoCall for an
\* authenticated user stores the stub call handle as videoCall.
C6_DemoStubHandle ==
  [][(/\ demoMode /\ isAuthenticated
      /\ "initializeVideoCall" \notin opsInvoked
      /\ "initializeVideoCall" \in opsInvoked') => videoCall' = "demo-call"]_vars

\* C7: in demo mode no call to the communications platform is ever in
\* flight, and videoClient, chatClient and chatChannel stay null.
C7_DemoNoPlatformCall ==
  demoMode =>
    /\ \A r \in BagToSet(pending) : r.op \notin PlatformOps
    /\ videoClient = None /\ chatClient = None /\ chatChannel = None

\* demo mode, signed in, initializeVideoCall invoked and ChatScreen rendered
\* with a partner
C7_Witness ==
  /\ demoMode /\ isAuthenticated
  /\ "initializeVideoCall" \in opsInvoked
  /\ "Chat" \in mountedTabs /\ chatPartner # None

\* C8: for a coach the main surface is shown only after a student of the
\* coach's active assignments has been picked; before that the selection
\* screen is shown and no tab screen is mounted.
C8_CoachGate ==
  RoleOf(userProfile) = "coach" =>
    IF studentSelected
    THEN /\ AppNavigator = "MainTabs"
         /\ selectedStudent \in ActiveStudents(userProfile)
    ELSE /\ AppNavigator = "Selection" /\ mountedTabs = {}

\* a coach on the main surface
C8_Witness ==
  RoleOf(userProfile) = "coach" /\ AppNavigator = "MainTabs"
  /\ "Home" \in mountedTabs

\* C9: an authenticated user whose role is not coach (student, another
\* role, or no role yet) is on the main surface, with no selection made.
C9_DirectAccess ==
  (isAuthenticated /\ ~authLoading /\ RoleOf(userProfile) # "coach") =>
    /\ AppNavigator = "MainTabs" /\ "Home" \in mountedTabs
    /\ ~studentSelected /\ selectedStudent = None

\* an administrator on the main surface, the Chat tab opened
C9_Witness ==
  /\ RoleOf(userProfile) = "admin" /\ AppNavigator = "MainTabs"
  /\ "Chat" \in mountedTabs

\* C10: a coach with no active assignment stays on the selection screen
\* with an empty list, and neither initializeVideoCall nor
\* initializeChatChannel is invoked.
C10_NoAssignmentNoSession ==
  (RoleOf(userProfile) = "coach" /\ ActiveStudents(userProfile) = {}) =>
    /\ AppNavigator = "Selection" /\ availableStudents = {}
    /\ opsInvoked = {}
    /\ \A r \in BagToSet(pending) : r.op \in {"getOrCreate", "initChat"} => r.u # user

\* the empty list is on screen: every effect has run and the load it
\* started has returned without error
C10_Witness ==
  /\ RoleOf(userProfile) = "coach" /\ ActiveStudents(userProfile) = {}
  /\ AppNavigator = "Selection" /\ ~EffectDue
  /\ ~csLoading /\ csError = None /\ InFlight("loadStudents") = {}

\* C11: endVideoCall invoked while videoCall is null changes nothing: no
\* request to the platform is added and the StreamContext state stays as it
\* is.
C11_EndWithoutCallNoOp ==
  [][EndVideoCallIdle =>
       UNCHANGED <<pending, calls, videoVars, chatVars, isStreamReady>>]_vars

\* endVideoCall can be invoked with no call held, after a call has ended
C11_Witness ==
  /\ isAuthenticated /\ videoCall = None /\ ~EffectDue
  /\ calls # EmptyBag /\ videoClient # None

\* C12: the selected partner does not survive a sign-out: after the step
\* that signs the user out, and after the step that signs a user in, no
\* student is selected and the selection flag is off, and a coach is on the
\* selection screen.
C12_SelectionDiscarded ==
  [][((user # None /\ user' = None) \/ (user = None /\ user' # None)) =>
       /\ selectedStudent' = None /\ ~studentSelected'
       /\ RoleOf(userProfile') = "coach" => AppNavigator' = "Selection"]_vars

\* a coach has picked a student and signed out; in the second session a
\* coach with students is back on the selection screen, the list loaded
C12_Witness ==
  /\ picked /\ signIns = 2 /\ RoleOf(userProfile) = "coach"
  /\ AppNavigator = "Selection" /\ ~EffectDue
  /\ selectedStudent = None /\ ~studentSelected
  /\ availableStudents # {} /\ pending = EmptyBag

\* the calls in flight for the platform operation of request r
Issued(r, bag) ==
  LET same == { q \in BagToSet(bag) : Attempt(q) = Attempt(r) }
  IN BagCardinality([q \in same |-> bag[q]])

\* C13: a platform call that has failed (stream-client initialisation,
\* chat-channel initialisation, getOrCreate or join) is not issued again by a
\* step that is neither a user action nor an authentication change.
C13_NoAutomaticRetry ==
  [][\A r \in failed \cap failed' : Issued(r, pending') <= Issued(r, pending)]_vars

\* the actions the signed-in user can take on the screens, short of signing
\* out
UserAction ==
  \/ RetryLoadStudents
  \/ \E st \in UserIds : handleStudentSelect(st)
  \/ \E t \in {"Chat", "VideoCall"} : SwitchTab(t)
  \/ handleRefresh
  \/ \E t \in Tasks, m \in JoinMinutes : handleJoinSession(t, m)
  \/ handleStartVideoCall
  \/ CallLeft

Calls(op, bag) ==
  LET rs == { q \in BagToSet(bag) : q.op = op }
  IN BagCardinality([q \in rs |-> bag[q]])

\* a user action that issues the platform call op, or schedules the effect
\* that issues it
Retriggers(op, effect) ==
  /\ UserAction
  /\ Calls(op, pending') > Calls(op, pending) \/ effect \in due'

\* C14: when a call to the platform has failed and its message is on screen
\* (stream-client initialisation: videoError; chat-channel initialisation:
\* chatError on ChatScreen; video-call initialisation: the dialog of the
\* handler), the signed-in user has an action that triggers the failed
\* operation again.
C14_ManualRetry ==
  (isAuthenticated /\ userProfile # None /\ ~EffectDue /\ pending = EmptyBag) =>
    /\ (videoError # None /\ EffMounted("videoTab") /\ callPartner # None) =>
         ENABLED Retriggers("initStream", "stream")
    /\ (chatError = "Failed to initialize chat channel" /\ EffMounted("chat")) =>
         ENABLED Retriggers("initChat", "chatInit")
    /\ ((\E r \in failed : r.op = "getOrCreate" /\ r.u = user)
        /\ alert \in {CatchAlert("home"), CatchAlert("tab")} /\ videoCall = None) =>
         ENABLED Retriggers("getOrCreate", "none")

\* C15: the derivation of a call id fails with InvalidIdentifier when a
\* participant identifier is empty, and it fails before the platform is
\* called: no getOrCreate request is ever in flight for an empty partner, and
\* no session record is made for one.
C15_EmptyIdRejected ==
  /\ \A a \in UserIds \cup {Missing} :
       /\ createVideoCallId(Missing, a) = InvalidIdentifier
       /\ createVideoCallId(a, Missing) = InvalidIdentifier
  /\ \A r \in InFlight("getOrCreate") :
       r.p # Missing /\ r.u # Missing /\ r.c # InvalidIdentifier
  /\ \A c \in BagToSet(calls) : Missing \notin c.members /\ c.id # InvalidIdentifier

\* handleJoinSession has invoked initializeVideoCall with the empty creator
\* of a session, the video client being ready, and the derivation has thrown
C15_Witness ==
  /\ \E r \in failed :
       /\ r.op = "initializeVideoCall" /\ r.u = user
       /\ r.p = Missing /\ r.c = InvalidIdentifier
  /\ alert = CatchAlert("home") /\ videoClient # None /\ ~demoMode

\* the call id of a participant paired with itself is an identifier
SelfPairingDefined ==
  \A a \in UserIds : createVideoCallId(a, a) # InvalidIdentifier

\* C18: the derivation is defined for a participant paired with itself: it
\* yields an identifier, and when a student joins a session the student has
\* created, initializeVideoCall goes on to getOrCreate with that identifier.
C18_SelfPairing ==
  [][/\ SelfPairingDefined
     /\ \A t \in Tasks, m \in JoinMinutes :
          (/\ RoleOf(userProfile) = "student" /\ t.assigned_by = user
           /\ ~demoMode /\ m <= 10 /\ m >= -60 /\ videoClient # None
           /\ handleJoinSession(t, m)) =>
            \E r \in BagToSet(pending') :
              /\ r.op = "getOrCreate" /\ r.u = user /\ r.p = user
              /\ r.c = createVideoCallId(user, user)
              /\ r.c # InvalidIdentifier]_vars

\* the session of a student paired with itself has been created
C18_Witness ==
  /\ RoleOf(userProfile) = "student" /\ videoCall # None
  /\ \E c \in SessionRecords(videoCall) :
       c.created_by = user /\ c.members = {user}

\* C16: when getOrCreate throws, the attempt ends there: videoCall and the
\* session records stay as they are, no join() is issued and the auto-join
\* effect is not scheduled, and the catch block of the caller raises its
\* alert.
C16_CreateFailureTerminal ==
  [][\A r \in InFlight("getOrCreate") :
       GetOrCreateDone(r, FALSE) =>
         /\ videoCall' = videoCall /\ calls' = calls
         /\ Calls("join", pending') = Calls("join", pending)
         /\ "autoJoin" \notin due'
         /\ alert' = CatchAlert(r.k) /\ alert' # None
         /\ Attempt(r) \in failed']_vars

\* getOrCreate has failed while an earlier call was held: the call is kept,
\* the alert is up and nothing is in flight
C16_Witness ==
  /\ videoCall # None /\ pending = EmptyBag
  /\ \E r \in failed : r.op = "getOrCreate" /\ r.u = user /\ failed = {r}
  /\ alert \in {CatchAlert("home"), CatchAlert("tab")}

\* the coaches with an active assignment to a student, read off the rows
ActiveCoaches(student) ==
  { x.coach_id : x \in { a \in Assignments : a.student_id = student /\ a.is_active } }

\* the partner a student's screens may hold: none, or the coach of the one
\* active assignment
PartnerDetected(student, partner) ==
  partner # None => ActiveCoaches(student) = {partner}

\* C17: for a student the partner of ChatScreen and of VideoCallTabScreen is
\* the coach of the student's single active assignment: a lookup that
\* succeeds stores that coach, a lookup that fails or finds no active
\* assignment leaves the partner empty; and with an empty partner
\* handleStartVideoCall invokes no initializeVideoCall and ChatScreen no
\* initializeChatChannel.
C17_PartnerFromAssignment ==
  [][/\ RoleOf(userProfile') = "student" =>
          /\ PartnerDetected(userProfile', chatPartner')
          /\ PartnerDetected(userProfile', callPartner')
     /\ \A r \in InFlight("fetchCoach") :
          LET partner == IF r.k = "chat" THEN chatPartner ELSE callPartner
              partnerAfter == IF r.k = "chat" THEN chatPartner' ELSE callPartner'
          IN /\ FetchCoachDone(r, TRUE) =>
                  (\A c \in ActiveCoaches(r.u) :
                     ActiveCoaches(r.u) = {c} => partnerAfter = c)
             /\ FetchCoachDone(r, FALSE) => partnerAfter = partner
     /\ (RoleOf(userProfile) = "student" /\ callPartner = None /\ handleStartVideoCall)
          => (opsInvoked' = opsInvoked /\ pending' = pending)
     /\ (RoleOf(userProfile) = "student" /\ chatPartner = None)
          => (/\ "initializeChatChannel" \in opsInvoked' =>
                     "initializeChatChannel" \in opsInvoked
              /\ Calls("initChat", pending') <= Calls("initChat", pending))
     /\ \A r \in BagToSet(pending') :
          (RoleOf(r.u) = "student"
           /\ (r.op = "initChat" \/ (r.op = "getOrCreate" /\ r.k = "tab")))
            => ActiveCoaches(r.u) = {r.p}]_vars

\* a student without an active assignment has opened both tabs; the lookups
\* have returned, the clients are ready and both partners are empty
C17_Witness ==
  /\ RoleOf(userProfile) = "student" /\ ActiveCoaches(userProfile) = {}
  /\ {"Chat", "VideoCall"} \subseteq mountedTabs /\ AppNavigator = "MainTabs"
  /\ ~chatScrLoading /\ ~vtLoading /\ ~EffectDue /\ pending = EmptyBag
  /\ chatPartner = None /\ callPartner = None
  /\ isStreamReady /\ chatClient # None /\ ~demoMode

\* C19: endVideoCall with a call held invokes leave() on that call once and
\* keeps videoCall until leave() returns; when it returns, videoCall becomes
\* null; when it throws, videoCall keeps the call, no further leave() is
\* issued, and the caller (onCallEnd) goes on past its catch block.
C19_EndWithCall ==
  [][/\ (CallLeft /\ videoCall # None) =>
          /\ Calls("leave", pending') = Calls("leave", pending) + 1
          /\ \E r \in BagToSet(pending') :
               /\ r.op = "leave" /\ r.c = videoCall
               /\ CopiesIn(r, pending') = CopiesIn(r, pending) + 1
          /\ videoCall' = videoCall /\ leaveInvoked'
     /\ \A r \in InFlight("leave") :
          /\ LeaveDone(r, TRUE) =>
               /\ videoCall' = None
               /\ Calls("leave", pending') = Calls("leave", pending) - 1
          /\ LeaveDone(r, FALSE) =>
               /\ videoCall' = videoCall /\ leaveInvoked' = leaveInvoked
               /\ Calls("leave", pending') = Calls("leave", pending) - 1
               /\ r.k = "ui" => ~showVideoCall']_vars

\* leave() has thrown: the call is still held, and the call screen is hidden
C19_Witness ==
  /\ isAuthenticated /\ videoCall # None /\ leaveInvoked
  /\ InFlight("leave") = {} /\ ~showVideoCall /\ ~EffectDue
  /\ "VideoCall" \in mountedTabs

\* C20: when initializeStreamClient finishes, videoLoading and chatLoading
\* are false; a successful run outside demo mode has stored both clients and
\* set isStreamReady; a failed run has set videoError and chatError and has
\* stored no client; the demo-mode run ends inside the effect with both
\* loading flags false.
C20_InitFinished ==
  [][/\ \A r \in InFlight("initStream") :
          /\ InitStreamDone(r, TRUE) =>
               /\ ~videoLoading' /\ ~chatLoading'
               /\ videoClient' = r.u /\ chatClient' = r.u /\ r.u # None
               /\ isStreamReady'
          /\ InitStreamDone(r, FALSE) =>
               /\ ~videoLoading' /\ ~chatLoading'
               /\ videoError' = "Failed to initialize video client"
               /\ chatError' = "Failed to initialize chat client"
               /\ videoClient' = videoClient /\ chatClient' = chatClient
     /\ (StreamEffect /\ demoMode /\ isAuthenticated /\ user # None
           /\ userProfile # None) =>
          ~videoLoading' /\ ~chatLoading']_vars

\* a run of initializeStreamClient has failed for the signed-in user
C20_Witness ==
  /\ isAuthenticated /\ userProfile # None /\ ~demoMode
  /\ (\E r \in failed : r.op = "initStream" /\ r.u = user)
  /\ InFlight("initStream") = {}
  /\ videoError # None /\ chatError # None
  /\ ~videoLoading /\ ~chatLoading
  /\ videoClient = None /\ chatClient = None /\ ~isStreamReady

\* the cleanup branch of the StreamProvider effect has run for the signed-out
\* state shown
CleanupHasRun ==
  /\ ~isAuthenticated
  /\ seen["stream"] = Deps("stream") /\ "stream" \notin due

\* C21: whenever no user is authenticated and the sign-out cleanup has run,
\* videoClient, chatClient, videoCall and chatChannel are null and
\* isStreamReady is false, also when a call that was in flight at sign-out
\* completes afterwards.
C21_CleanAfterSignOut ==
  CleanupHasRun =>
    /\ videoClient = None /\ chatClient = None
    /\ videoCall = None /\ chatChannel = None
    /\ ~isStreamReady

\* C22: ChatScreen invokes initializeChatChannel only with a partner and a
\* chat client, no channel held, no chat load in progress, no chat error and
\* demo mode off; at most one createChatChannel call is outstanding, and a
\* held channel is replaced by no other channel before it is cleared.
C22_ChatInitSerialized ==
  [][/\ ChatInitEffect =>
          /\ chatPartner # None /\ chatClient # None /\ chatChannel = None
          /\ ~chatLoading /\ chatError = None /\ ~demoMode
          /\ Calls("initChat", pending) = 0
     /\ Calls("initChat", pending') > Calls("initChat", pending) => ChatInitEffect
     /\ Calls("initChat", pending') <= 1
     /\ chatChannel # None => chatChannel' \in {chatChannel, None}]_vars

\* the dialogs of handleJoinSession for a press outside the join window
WindowAlerts == {"Sesyon Henuz Baslamadi", "Sesyon Sona Erdi"}

\* m is the floor of the time difference in minutes, and getSessionStatus
\* reports canJoin exactly for -60 <= m <= 10
CanJoinInWindow ==
  \A d \in TimeDiffs :
    LET m == minutesUntilSession(d)
    IN /\ m * 60000 <= d /\ d < (m + 1) * 60000
       /\ getSessionStatus(m).canJoin <=> (-60 <= m /\ m <= 10)

\* C23: outside demo mode a press of the join button m minutes before the
\* start goes on to initializeVideoCall exactly when -60 <= m <= 10, which is
\* when getSessionStatus reports canJoin; otherwise it raises a dialog and
\* makes no platform call.  m is the floor of the time difference in minutes.
C23_JoinWindow ==
  [][/\ CanJoinInWindow
     /\ (~demoMode /\ HomeVisible /\ ~EffectDue) =>
          \A t \in upcomingSessions, m \in JoinMinutes :
            handleJoinSession(t, m) =>
              LET partnerId == IF RoleOf(userProfile) = "student"
                               THEN t.assigned_by ELSE t.assigned_to
              IN IF getSessionStatus(m).canJoin
                 THEN /\ "initializeVideoCall" \in opsInvoked'
                      /\ alert' \notin WindowAlerts
                      /\ \/ initializeVideoCallThrows(partnerId)
                         \/ Calls("getOrCreate", pending') =
                              Calls("getOrCreate", pending) + 1
                 ELSE /\ alert' \in WindowAlerts
                      /\ pending' = pending /\ opsInvoked' = opsInvoked
                      /\ videoCall' = videoCall]_vars

\* the join button was pressed 11 minutes before the start: only the dialog
C23_Witness ==
  /\ ~demoMode /\ isAuthenticated /\ alert = "Sesyon Henuz Baslamadi"
  /\ upcomingSessions # {} /\ pending = EmptyBag /\ videoCall = None
  /\ "initializeVideoCall" \notin opsInvoked

ByAssignedCoach(student, sessions) ==
  { session \in sessions : /\ CoachOf(student) # None
                            /\ session.assigned_by = CoachOf(student) }

LaterThanNow(d) == { Offsets[i] : i \in { j \in 1..3 : d - Offsets[j] > 0 } }

\* scheduleSessionReminders, when no scheduling call throws, schedules the
\* reminders whose instant is strictly later than now, none for a session
\* that has started or has no start time, and all three with the first
ReminderRule ==
  /\ scheduleSessionReminders(<<>>, 0) = {}
  /\ \A d \in StartDiffs :
       LET set == scheduleSessionReminders(<<d>>, 0)
       IN /\ set = LaterThanNow(d)
          /\ d <= 0 => set = {}
          /\ Offsets[1] \in set => set = {Offsets[1], Offsets[2], Offsets[3]}

\* the reminders of session id at offset o in the bag
Pending(bag, id, o) == CopiesIn([sessionId |-> id, offset |-> o], bag)

C26_NoDuplicateReminders ==
  \A session \in Tasks, i \in 1..3 :
    Pending(reminders, session.id, Offsets[i]) <= 1

\* C27: for every authenticated user on the main surface with the profile
\* available, whatever the role, ChatScreen and VideoCallTabScreen leave
\* their initial loading state (or are unmounted by a sign-out).
C27_ScreensLeaveLoading ==
  /\ (EffMounted("chat") /\ userProfile # None)
       ~> (~chatScrLoading \/ ~EffMounted("chat"))
  /\ (EffMounted("videoTab") /\ userProfile # None)
       ~> (~vtLoading \/ ~EffMounted("videoTab"))

\* C28: while a coach is on the main surface a student is selected, and the
\* student is a member of availableStudents, the list loaded from the
\* coach's active assignments; the selection flag, once true, becomes false
\* only in the step that signs the user out.
C28_CoachSelectionKept ==
  /\ [](RoleOf(userProfile) = "coach" /\ AppNavigator = "MainTabs" =>
         /\ selectedStudent # None
         /\ selectedStudent \in availableStudents
         /\ availableStudents = StudentsOf(userProfile))
  /\ [][studentSelected /\ ~studentSelected' =>
         user # None /\ user' = None]_vars

\* a coach on the main surface after the pick, the Chat and VideoCall tabs
\* opened, every effect run and every call returned
C28_Witness ==
  /\ RoleOf(userProfile) = "coach" /\ AppNavigator = "MainTabs"
  /\ studentSelected /\ {"Chat", "VideoCall"} \subseteq mountedTabs
  /\ pending = EmptyBag /\ ~EffectDue

\* the profile checkAuthAndLoadData has found is that of an administrator
ConfirmedAdmin ==
  /\ pagePc \notin {"mounted", "check.getUser", "check.profile"}
  /\ checkedUser # None /\ checkedUser \in UserIds
  /\ Role[checkedUser] = "admin"

\* C29: loadSubjectsAndResources is called only after the user of the
\* page has been found authenticated with an administrator's profile; when
\* the check ends for no user, a user without profile or a profile of
\* another role, redirect('/login') has been called and
\* loadSubjectsAndResources is never called.
C29_LoadOnlyForAdmin ==
  /\ (loadInvoked \/ pagePc \in {"load.subjects", "load.resources"})
       => ConfirmedAdmin
  /\ (pagePc \notin {"mounted", "check.getUser", "check.profile"} /\ ~ConfirmedAdmin)
       => (redirected = "/login" /\ ~loadInvoked /\ pagePc = "stopped")
  /\ redirected # None => ~ConfirmedAdmin

\* an administrator's page after the first load and a save with its reload
C29_Witness ==
  /\ ConfirmedAdmin /\ loadInvoked /\ reloaded /\ pagePc = "idle"
  /\ ~loading /\ redirected = None

\* the subject groups of the page that hold a row with the id of resource r
GroupsHolding(r) ==
  { subjectId \in DOMAIN resources :
      \E row \in Rows(resources[subjectId]) : row.id = r.id }

\* C30: after the reload that follows a save has returned, each resource
\* row is listed in exactly one subject group of the page, the group of its
\* subject_id, a resource saved with no subject included.
C30_SavedResourceListed ==
  (reloaded /\ pagePc = "idle") =>
    \A r \in resourcesTable :
      /\ Cardinality(GroupsHolding(r)) = 1
      /\ Truthy(r.subject_id) => GroupsHolding(r) = {r.subject_id}
      /\ Truthy(r.subject_id) => r.subject_id \in SubjectIds(subjects)

====
